---- MODULE Spec2Model ----
(***************************************************************************)
(* Model of Setup_Run.py: the batch loop of main, the face detector        *)
(* wrapper detect_faces, the crop geometry and normaliser of               *)
(* draw_rectangles_and_save, and the fallback trigger run_yolo_if_needed.  *)
(* Pixel data is abstracted to image dimensions; file names are sequences  *)
(* of one-character strings so that lower() and endswith() are computed.   *)
(***************************************************************************)
EXTENDS Integers, Sequences, FiniteSets, TLC

\* ---------------------------------------------------------------- bounds
MaxFiles == 2
MaxFaces == 2
GeomSpan == 3

\* ------------------------------------------------------ program constants
MinSide == 100
OutSize == 512

load_folder == "auto-crop-face/load"
output_folder == "auto-crop-face/output"
failed_folder == "auto-crop-face/failed"

None == [none |-> TRUE]

\* ------------------------------------------------------------ arithmetic
Max(a, b) == IF a >= b THEN a ELSE b
Min(a, b) == IF a <= b THEN a ELSE b

\* int(x * 0.5): truncation towards zero of half an integer
IntHalf(x) == IF x >= 0 THEN x \div 2 ELSE 0 - ((0 - x) \div 2)

\* F(v), with v evaluated once and handed to F as a value
Bind(v, F(_)) == CHOOSE y \in { F(x) : x \in {v} } : TRUE

\* int((height * width * 0.5) ** 0.5): the largest k with k*k <= area/2;
\* it cannot exceed the longer side of the image
IntSqrtHalf(width, height) ==
    CHOOSE k \in 0..Max(width, height) :
        /\ 2 * (k * k) <= height * width
        /\ 2 * ((k + 1) * (k + 1)) > height * width

\* length of a[start:stop] for a sequence of length len (Python slicing)
SliceIndex(i, len) == IF i < 0 THEN Max(0, i + len) ELSE Min(i, len)
SliceLen(start, stop, len) ==
    Max(0, SliceIndex(stop, len) - SliceIndex(start, len))

\* ------------------------------------------------------------ file names
Lower(c) ==
    CASE c = "P" -> "p" [] c = "N" -> "n" [] c = "G" -> "g"
      [] c = "J" -> "j" [] c = "E" -> "e" [] c = "T" -> "t"
      [] c = "X" -> "x" [] OTHER -> c

LowerStr(s) == [i \in 1..Len(s) |-> Lower(s[i])]

EndsWith(s, suf) ==
    /\ Len(s) >= Len(suf)
    /\ \A i \in 1..Len(suf) : s[Len(s) - Len(suf) + i] = suf[i]

ImageSuffixes == { <<".", "p", "n", "g">>, <<".", "j", "p", "g">>,
                   <<".", "j", "p", "e", "g">> }

IsImageName(filename) ==
    \E suf \in ImageSuffixes : EndsWith(LowerStr(filename), suf)

Join(folder, filename) == [folder |-> folder, name |-> filename]

\* ------------------------------------------------------- crop geometry
\* a face box as face_recognition reports it: (top, right, bottom, left)
Box(top, right, bottom, left) ==
    [top |-> top, right |-> right, bottom |-> bottom, left |-> left]

Rect(t, l, b, r, side, branch) ==
    [new_top |-> t, new_left |-> l, new_bottom |-> b, new_right |-> r,
     target_side |-> side, branch |-> branch]

NoRect == Rect(0, 0, 0, 0, 0, "none")

\* MarginBox with the right and bottom edges left unclamped
MarginBoxUnclamped(width, height, box) ==
    LET margin_x == IntHalf(box.right - box.left)
        margin_y == IntHalf(box.bottom - box.top)
    IN  Rect(Max(0, box.top - margin_y), Max(0, box.left - margin_x),
             box.bottom + margin_y, box.right + margin_x, 0, "margin")

\* the face box expanded by half its size on every side, clamped
MarginBox(width, height, box) ==
    LET face_width  == box.right - box.left
        face_height == box.bottom - box.top
        margin_x    == IntHalf(face_width)
        margin_y    == IntHalf(face_height)
    IN  Rect(Max(0, box.top - margin_y), Max(0, box.left - margin_x),
             Min(height, box.bottom + margin_y),
             Min(width, box.right + margin_x), 0, "margin")

\* the square of the given side around the centre of the expanded box m
SquareAround(width, height, m, target_side) ==
    LET crop_width  == m.new_right - m.new_left
        crop_height == m.new_bottom - m.new_top
        center_x    == m.new_left + crop_width \div 2
        center_y    == m.new_top + crop_height \div 2
        half_side   == target_side \div 2
        left1       == Max(0, center_x - half_side)
        top1        == Max(0, center_y - half_side)
        right1      == Min(width, center_x + half_side)
        bottom1     == Min(height, center_y + half_side)
        left2       == IF right1 - left1 < target_side
                       THEN Max(0, right1 - target_side) ELSE left1
        top2        == IF bottom1 - top1 < target_side
                       THEN Max(0, bottom1 - target_side) ELSE top1
    IN  Rect(top2, left2, bottom1, right1, target_side, "square")

SquareGrow(width, height, m) ==
    Bind(IntSqrtHalf(width, height),
         LAMBDA target_side : SquareAround(width, height, m, target_side))

\* crop_area < min_area, with min_area = orig_area * 0.5
BelowMinArea(width, height, m) ==
    2 * ((m.new_right - m.new_left) * (m.new_bottom - m.new_top))
        < height * width

FaceCrop(width, height, box) ==
    Bind(MarginBox(width, height, box),
         LAMBDA m : IF BelowMinArea(width, height, m)
                    THEN SquareGrow(width, height, m) ELSE m)

\* the square of the given side around the centre of the image
CenterSquare(width, height, target_side) ==
    LET center_y == height \div 2
        center_x == width \div 2
        top1     == Max(0, center_y - target_side \div 2)
        left1    == Max(0, center_x - target_side \div 2)
    IN  Rect(top1, left1, Min(height, top1 + target_side),
             Min(width, left1 + target_side), target_side, "center")

\* CenterCrop with the half side rounded up instead of down
CenterCropCeil(width, height) ==
    Bind(Min(IntSqrtHalf(width, height), Min(height, width)),
         LAMBDA target_side :
            LET top1  == Max(0, height \div 2 - (target_side + 1) \div 2)
                left1 == Max(0, width \div 2 - (target_side + 1) \div 2)
            IN  Rect(top1, left1, Min(height, top1 + target_side),
                     Min(width, left1 + target_side), target_side, "center"))

\* CenterCrop with target_side not capped by the image sides
CenterCropUncapped(width, height) ==
    Bind(IntSqrtHalf(width, height),
         LAMBDA target_side : CenterSquare(width, height, target_side))

CenterCrop(width, height) ==
    Bind(Min(IntSqrtHalf(width, height), Min(height, width)),
         LAMBDA target_side : CenterSquare(width, height, target_side))

CropRect(width, height, face_locations) ==
    IF face_locations # <<>>
    THEN FaceCrop(width, height, face_locations[1])
    ELSE CenterCrop(width, height)

\* shape of image[new_top:new_bottom, new_left:new_right]
Cropped(width, height, r) ==
    [h |-> SliceLen(r.new_top, r.new_bottom, height),
     w |-> SliceLen(r.new_left, r.new_right, width)]

\* ----------------------------------------------------------- normaliser
CopyMakeBorder(img, top, bottom, left, right) ==
    [h |-> img.h + top + bottom, w |-> img.w + left + right]

Pad(cropped) ==
    IF cropped.h < OutSize \/ cropped.w < OutSize
    THEN LET pad_y == Max(0, (OutSize - cropped.h) \div 2)
             pad_x == Max(0, (OutSize - cropped.w) \div 2)
         IN  CopyMakeBorder(cropped, pad_y, pad_y, pad_x, pad_x)
    ELSE cropped

\* Resize that leaves an image alone when it is already large enough
ResizeUpOnly(img, dsize) ==
    IF img.h >= dsize[2] /\ img.w >= dsize[1] THEN img
    ELSE [h |-> dsize[2], w |-> dsize[1]]

Resize(img, dsize) == [h |-> dsize[2], w |-> dsize[1]]

\* cv2.imwrite: the file of that name in the folder is created or replaced
Imwrite(files, path, img) ==
    [files EXCEPT ![path.folder] =
        {f \in @ : f.name # path.name}
            \cup {[name |-> path.name, h |-> img.h, w |-> img.w]}]

\* main: the folder a result goes to, and the path it is written to
\* OutputFolder that ignores the detection result
OutputFolderAlways(face_locations) == output_folder

OutputFolder(face_locations) ==
    IF face_locations # <<>> THEN output_folder ELSE failed_folder

OutputPath(face_locations, filename) ==
    Join(OutputFolder(face_locations), filename)

\* ------------------------------------------- draw_rectangles_and_save
\* TooSmall that rejects only when both sides are short
TooSmallBoth(img) == img.h < MinSide /\ img.w < MinSide

TooSmall(img) == img.h < MinSide \/ img.w < MinSide

Failure(r, c) ==
    [success |-> FALSE, rect |-> r, cropped |-> c, output_image |-> None]

\* the value a call returned, as main holds it in success
Returned(b) == IF b THEN "True" ELSE "False"

\* pad, resize and report success, or report the empty crop
Normalise(r, c) ==
    IF c.h > 0 /\ c.w > 0
    THEN Bind(Pad(c),
              LAMBDA padded :
                 [success |-> TRUE, rect |-> r, cropped |-> padded,
                  output_image |-> Resize(padded, <<OutSize, OutSize>>)])
    ELSE Failure(r, c)

\* what one call computes from the decoded image (None when imread fails)
\* and the face locations
DrawResult(img, face_locations) ==
    IF img = None THEN Failure(NoRect, None)
    ELSE IF TooSmall(img) THEN Failure(NoRect, None)
    ELSE Bind(CropRect(img.w, img.h, face_locations),
              LAMBDA r : Bind(Cropped(img.w, img.h, r),
                              LAMBDA c : Normalise(r, c)))

\* --------------------------------------------------------------- inputs
Names == { <<"a", ".", "p", "n", "g">>, <<"b", ".", "J", "P", "G">>,
           <<"c", ".", "J", "p", "e", "g">>, <<"d", ".", "t", "x", "t">> }

Listings ==
    { l \in UNION { [1..n -> Names] : n \in 0..MaxFiles } :
        \A i, j \in 1..Len(l) : i # j => l[i] # l[j] }

GeomName == <<"b", ".", "J", "P", "G">>

Image(width, height) == [h |-> height, w |-> width]

ValidBox(width, height, box) ==
    /\ 0 <= box.top /\ box.top < box.bottom /\ box.bottom <= height
    /\ 0 <= box.left /\ box.left < box.right /\ box.right <= width

BoxesOn(width, height, xs, ys) ==
    { b \in { Box(t, r, bt, l) : t \in ys, bt \in ys, l \in xs, r \in xs } :
        ValidBox(width, height, b) }

\* n copies of the first box: only face_locations[0] is ever read
Faces(box, n) == [i \in 1..n |-> box]

\* inputs of the batch run
BatchSides == {50, 100, 725}

BatchPoints(d) == {0, d \div 2, d}

BatchImages == {None} \cup { Image(w, h) : w \in BatchSides, h \in BatchSides }

\* the detector decodes the file on its own; it may read what imread cannot
DetectorView(img) == IF img = None THEN Image(100, 100) ELSE img

BatchDetections(img) ==
    LET v == DetectorView(img)
    IN  { Faces(b, n) : n \in 1..MaxFaces,
          b \in BoxesOn(v.w, v.h, BatchPoints(v.w), BatchPoints(v.h)) }

\* inputs of a single call of draw_rectangles_and_save
GeomSides == (MinSide..(MinSide + GeomSpan)) \cup {200, 725, 1000}

GeomPoints(d) ==
    {0, 1, d \div 10, d \div 3, (2 * d) \div 5, d \div 2, (3 * d) \div 5,
     d - 1, d}

GeomImages == { Image(w, h) : w \in GeomSides, h \in GeomSides }

GeomDetections(img) ==
    {<<>>} \cup
    { Faces(b, 1) :
        b \in BoxesOn(img.w, img.h, GeomPoints(img.w), GeomPoints(img.h)) }

\* ---------------------------------------------------------------- state
VARIABLES listing, idx, pc, filename, image, face_locations, detect_error,
          output_path, rect, cropped, output_image, success, files, written,
          processed, images_found, yolo

vars == <<listing, idx, pc, filename, image, face_locations, detect_error,
          output_path, rect, cropped, output_image, success, files, written,
          processed, images_found, yolo>>

locals == <<filename, image, face_locations, detect_error, output_path,
            rect, cropped, output_image, success>>

EmptyFolders == [d \in {output_folder, failed_folder} |-> {}]

\* a file left in the failed folder by an earlier run
OldFile == [name |-> <<"a", ".", "p", "n", "g">>, h |-> OutSize, w |-> OutSize]

Init ==
    /\ listing \in Listings
    /\ idx = 0
    /\ pc = "loop"
    /\ filename = <<>>
    /\ image = None
    /\ face_locations = <<>>
    /\ detect_error = FALSE
    /\ output_path = None
    /\ rect = NoRect
    /\ cropped = None
    /\ output_image = None
    /\ success = "unset"
    /\ files \in { EmptyFolders,
                   [EmptyFolders EXCEPT ![failed_folder] = {OldFile}] }
    /\ written = {}
    /\ processed = <<>>
    /\ images_found = FALSE
    /\ yolo = "none"

\* ------------------------------------------------------------- actions
\* for filename in os.listdir(load_folder): an image file starts an iteration
ProcessNext ==
    /\ pc = "loop"
    /\ idx < Len(listing)
    /\ IsImageName(listing[idx + 1])
    /\ idx' = idx + 1
    /\ filename' = listing[idx + 1]
    /\ images_found' = TRUE
    /\ processed' = Append(processed, listing[idx + 1])
    /\ image' \in BatchImages
    /\ face_locations' = <<>>
    /\ detect_error' = FALSE
    /\ output_path' = None
    /\ rect' = NoRect
    /\ cropped' = None
    /\ output_image' = None
    /\ success' = "unset"
    /\ pc' = "detect"
    /\ UNCHANGED <<listing, files, written, yolo>>

\* a listing entry without an image extension is passed over
SkipFile ==
    /\ pc = "loop"
    /\ idx < Len(listing)
    /\ ~IsImageName(listing[idx + 1])
    /\ idx' = idx + 1
    /\ UNCHANGED <<listing, pc, locals, files, written, processed,
                   images_found, yolo>>

\* the listing is exhausted
LoopExit ==
    /\ pc = "loop"
    /\ idx = Len(listing)
    /\ pc' = "yolo"
    /\ UNCHANGED <<listing, idx, locals, files, written, processed,
                   images_found, yolo>>

DetectFaces ==
    /\ pc = "detect"
    /\ \/ /\ face_locations' \in {<<>>} \cup BatchDetections(image)
          /\ detect_error' = FALSE
       \/ /\ face_locations' = <<>>
          /\ detect_error' = TRUE
    /\ pc' = "route"
    /\ UNCHANGED <<listing, idx, filename, image, output_path, rect, cropped,
                   output_image, success, files, written, processed,
                   images_found, yolo>>

Route ==
    /\ pc = "route"
    /\ output_path' = OutputPath(face_locations, filename)
    /\ pc' = "draw"
    /\ UNCHANGED <<listing, idx, filename, image, face_locations,
                   detect_error, rect, cropped, output_image, success, files,
                   written, processed, images_found, yolo>>

\* the call draw_rectangles_and_save(image_path, face_locations, output_path)
DrawCall ==
    /\ pc = "draw"
    /\ \E res \in {DrawResult(image, face_locations)} :
           /\ success' = Returned(res.success)
           /\ rect' = res.rect
           /\ cropped' = res.cropped
           /\ output_image' = res.output_image
           /\ IF res.success
              THEN /\ files' = Imwrite(files, output_path, res.output_image)
                   /\ written' = written \cup {output_path}
              ELSE UNCHANGED <<files, written>>
    /\ UNCHANGED <<listing, idx, filename, image, face_locations,
                   detect_error, output_path, processed, images_found, yolo>>

\* a call whose failure is raised out of main instead of returned
DrawRaises ==
    /\ DrawCall
    /\ pc' = IF success' = "True" THEN "loop" ELSE "crashed"

\* main: the call, the warning on failure, and on to the next listing entry
DrawRectanglesAndSave ==
    /\ DrawCall
    /\ pc' = "loop"

FailedImages == { f \in files[failed_folder] : IsImageName(f.name) }

\* run_yolo_if_needed: the subprocess is started only when the failed folder
\* holds an image file; CalledProcessError is caught, any other exception of
\* subprocess.run (no python on the path) leaves main
RunYoloIfNeeded ==
    /\ pc = "yolo"
    /\ IF FailedImages # {}
       THEN \/ yolo' = "ran" /\ pc' = "done"
            \/ yolo' = "CalledProcessError" /\ pc' = "done"
            \/ yolo' = "uncaught" /\ pc' = "crashed"
       ELSE yolo' = "skipped" /\ pc' = "done"
    /\ UNCHANGED <<listing, idx, locals, files, written, processed,
                   images_found>>

Next ==
    \/ ProcessNext
    \/ SkipFile
    \/ LoopExit
    \/ DetectFaces
    \/ Route
    \/ DrawRectanglesAndSave
    \/ RunYoloIfNeeded

Spec == Init /\ [][Next]_vars

FairSpec == Spec /\ WF_vars(Next)

\* a single call draw_rectangles_and_save(image_path, face_locations,
\* output_path) made by main, over a dense set of images and face boxes
InitGeom ==
    /\ listing = <<GeomName>>
    /\ idx = 1
    /\ pc = "draw"
    /\ filename = GeomName
    /\ image \in GeomImages
    /\ face_locations \in GeomDetections(image)
    /\ detect_error = FALSE
    /\ output_path = OutputPath(face_locations, filename)
    /\ rect = NoRect
    /\ cropped = None
    /\ output_image = None
    /\ success = "unset"
    /\ files = EmptyFolders
    /\ written = {}
    /\ processed = <<GeomName>>
    /\ images_found = TRUE
    /\ yolo = "none"

NextGeom == DrawRectanglesAndSave

GeomSpec == InitGeom /\ [][NextGeom]_vars

\* =============================================================== claims
Drawn == rect.branch # "none"

CropW == rect.new_right - rect.new_left

CropH == rect.new_bottom - rect.new_top

HasValidBox ==
    /\ face_locations # <<>>
    /\ 0 <= face_locations[1].top
    /\ face_locations[1].top < face_locations[1].bottom
    /\ face_locations[1].bottom <= image.h
    /\ 0 <= face_locations[1].left
    /\ face_locations[1].left < face_locations[1].right
    /\ face_locations[1].right <= image.w

\* C1: for every accepted image, without a face box or with any valid face
\* box, the crop rectangle lies inside the image and has positive width and
\* height.
C1_CropInRange ==
    (Drawn /\ (face_locations = <<>> \/ HasValidBox)) =>
        /\ 0 <= rect.new_left /\ rect.new_left < rect.new_right
        /\ rect.new_right <= image.w
        /\ 0 <= rect.new_top /\ rect.new_top < rect.new_bottom
        /\ rect.new_bottom <= image.h

\* C1 witness: a crop was computed for a face box equal to the whole image
C1_Witness ==
    /\ Drawn
    /\ face_locations # <<>>
    /\ face_locations[1] = Box(0, image.w, image.h, 0)

\* C2 (as stated): the area of the final crop is at least half the area of
\* the image.
C2_AreaAtLeastHalf ==
    Drawn => 2 * (CropW * CropH) >= image.w * image.h

\* C3 (as stated): in the square-growth branch the crop is target_side wide
\* when the image is at least that wide, and target_side high when the image
\* is at least that high, for every position of the face box; the 1000x1000
\* example gives {146,146,853,853}.
C3_SidePreserved ==
    /\ rect.branch = "square" =>
          /\ image.w >= rect.target_side => CropW = rect.target_side
          /\ image.h >= rect.target_side => CropH = rect.target_side
    /\ (/\ Drawn
        /\ image = Image(1000, 1000)
        /\ face_locations = <<Box(400, 600, 600, 400)>>) =>
          rect = Rect(146, 146, 853, 853, 707, "square")

\* C4 (as stated): a 200x200 image without a face box is cropped to
\* top=29, left=29, bottom=170, right=170 with target_side 141.
C4_CenterCrop200Stated ==
    (Drawn /\ image = Image(200, 200) /\ face_locations = <<>>) =>
        /\ rect.target_side = 141
        /\ rect.new_top = 29 /\ rect.new_left = 29
        /\ rect.new_bottom = 170 /\ rect.new_right = 170

\* C4 (amended): a 200x200 image without a face box is cropped to
\* top=30, left=30, bottom=171, right=171 (141x141) with target_side 141.
C4_CenterCrop200 ==
    (Drawn /\ image = Image(200, 200) /\ face_locations = <<>>) =>
        /\ rect.target_side = 141
        /\ rect.new_top = 30 /\ rect.new_left = 30
        /\ rect.new_bottom = 171 /\ rect.new_right = 171

\* C4 witness: the 200x200 image without a face box has been cropped
C4_Witness ==
    Drawn /\ image = Image(200, 200) /\ face_locations = <<>> /\ success = "True"

\* C5: without a face box the crop is exactly the square of side
\* target_side = floor(min(sqrt(width*height/2), height, width)) placed at
\* (height//2 - target_side//2, width//2 - target_side//2); the clamping
\* truncates nothing.
C5_CenterSquare ==
    rect.branch = "center" =>
        LET ts == rect.target_side
        IN  /\ ts <= image.h /\ ts <= image.w
            /\ 2 * (ts * ts) <= image.w * image.h
            /\ \/ ts = image.h
               \/ ts = image.w
               \/ 2 * ((ts + 1) * (ts + 1)) > image.w * image.h
            /\ CropH = ts /\ CropW = ts
            /\ rect.new_top = image.h \div 2 - ts \div 2
            /\ rect.new_left = image.w \div 2 - ts \div 2

\* C5 witness: a centre crop whose side is capped by the image width
C5_Witness ==
    /\ rect.branch = "center"
    /\ rect.target_side = image.w
    /\ image.w < image.h
    /\ 2 * ((image.w + 1) * (image.w + 1)) <= image.w * image.h

\* C6: whenever the call reports success the written image is exactly
\* 512x512; each side of an axis is padded by max(0, floor((512 - dim)/2))
\* only when some dimension of the crop is below 512.
C6_OutputIs512 ==
    success = "True" =>
        /\ output_image = [h |-> 512, w |-> 512]
        /\ [name |-> output_path.name, h |-> 512, w |-> 512]
               \in files[output_path.folder]
        /\ \A f \in files[output_path.folder] :
               f.name = output_path.name => f.h = 512 /\ f.w = 512
        /\ cropped =
              IF CropH < 512 \/ CropW < 512
              THEN [h |-> CropH + 2 * Max(0, (512 - CropH) \div 2),
                    w |-> CropW + 2 * Max(0, (512 - CropW) \div 2)]
              ELSE [h |-> CropH, w |-> CropW]

\* C6 witness: a success whose crop is narrower than 512 and higher than 512
C6_Witness == success = "True" /\ CropW < 512 /\ CropH > 512

C7_EmptyCrop ==
    LET c == Cropped(image.w, image.h,
                     CropRect(image.w, image.h, face_locations))
    IN  c.h = 0 \/ c.w = 0

\* C7: a call on an image that cannot be decoded, or is under 100 pixels on
\* a side, or has an empty crop, returns False and leaves the output folder
\* and the failed folder as they were; so does every call that returns False.
C7_NoOutputOnFailure ==
    [][ /\ (pc = "draw" /\ (\/ image = None
                            \/ image.h < 100
                            \/ image.w < 100
                            \/ C7_EmptyCrop))
            => (success' = "False" /\ files' = files /\ written' = written)
        /\ (pc = "draw" /\ success' = "False")
            => (files' = files /\ written' = written) ]_vars

\* C7 witness: a 50x50 image in which a face was detected has been refused
C7_Witness ==
    /\ pc = "loop"
    /\ image = Image(50, 50)
    /\ face_locations # <<>>
    /\ success = "False"

\* C8: the output path is the output folder joined with the unchanged file
\* name exactly when the detector returned at least one box, and the failed
\* folder joined with it otherwise (no boxes, or a detector error); no file
\* is written to both folders and a written file has its input's name.
C8_Routing ==
    /\ pc = "draw" => output_path # None
    /\ output_path # None =>
          /\ output_path.name = filename
          /\ output_path.folder = output_folder <=> Len(face_locations) >= 1
          /\ output_path.folder = failed_folder <=> Len(face_locations) = 0
          /\ detect_error => output_path.folder = failed_folder
    /\ success = "True" =>
          /\ output_path \in written
          /\ \E f \in files[output_path.folder] : f.name = filename
    /\ \A p \in written :
          /\ \E i \in 1..Len(processed) : processed[i] = p.name
          /\ \A q \in written : q.name = p.name => q.folder = p.folder

\* C8 witness: after a detector error the result was written to the failed
\* folder
C8_Witness ==
    /\ detect_error
    /\ success = "True"
    /\ output_path \in written
    /\ output_path.folder = failed_folder

C9_ImageNames ==
    { <<"a", ".", "p", "n", "g">>, <<"b", ".", "J", "P", "G">>,
      <<"c", ".", "J", "p", "e", "g">> }

RECURSIVE C9_Expected(_)
C9_Expected(names) ==
    IF names = <<>> THEN <<>>
    ELSE IF Head(names) \in C9_ImageNames
         THEN <<Head(names)>> \o C9_Expected(Tail(names))
         ELSE C9_Expected(Tail(names))

C9_LoopOver == pc \in {"yolo", "done", "crashed"}

C10_CropContainsFace ==
    (rect.branch \in {"margin", "square"} /\ HasValidBox) =>
        /\ rect.new_left <= face_locations[1].left
        /\ rect.new_top <= face_locations[1].top
        /\ rect.new_right >= face_locations[1].right
        /\ rect.new_bottom >= face_locations[1].bottom

====
